---- MODULE Spec2Model ----
(***************************************************************************)
(* Model of src/src/resolver.ts: the expansion of an environment-file      *)
(* pattern into candidate file names (generatePatternCombinations) and the *)
(* selection of the first candidate that exists (resolveEnvPath).          *)
(*                                                                         *)
(* Strings are TLA+ strings; a character is a string of length one.        *)
(* A nullable value is a tuple: None for null, Some(v) for the value v.    *)
(***************************************************************************)
EXTENDS Integers, Sequences, FiniteSets, TLC

VARIABLES
    pattern,                \* the pattern argument: a sequence of EnvPatternPart
    NODE_ENV,               \* process.env.NODE_ENV: [isSet, value]
    combinations,           \* generatePatternCombinations: the in-progress string[][]
    partIdx,                \* generatePatternCombinations: parts consumed by forEach
    gpc,                    \* generatePatternCombinations: "loop" | "done"
    genResult,              \* generatePatternCombinations: the returned string[]
    dest,                   \* resolveEnvPath: the dest argument
    ignoreEnvSpecificWarn,  \* resolveEnvPath: the ignoreEnvSpecificWarn argument
    fs,                     \* the absolute paths that exist on the file system
    pc,                     \* resolveEnvPath: "start" | "loop" | "check" | "done"
    filesToTry,             \* resolveEnvPath: the candidate list
    idx,                    \* resolveEnvPath: position of the for..of loop (1-based)
    probed,                 \* the list positions handed to existsSync, in call order
    config,                 \* resolveEnvPath: [resolvedBy, filepath], both nullable
    logs,                   \* what EnvLogger received: a sequence of [level, message]
    outcome                 \* how the call ended: [kind, value]

genVars == <<combinations, partIdx, gpc, genResult>>
resVars == <<dest, ignoreEnvSpecificWarn, fs, pc, filesToTry, idx, probed, config,
             logs, outcome>>
vars == <<pattern, NODE_ENV, genVars, resVars>>

(***************************************************************************)
(* Bounds of the model.                                                    *)
(***************************************************************************)
\* Longest pattern handed to generatePatternCombinations on its own.
MaxParts == 3
\* Longest custom pattern handed to resolveEnvPath.
MaxResolveParts == 2

None == <<>>
Some(v) == <<v>>

(***************************************************************************)
(* String helpers.                                                         *)
(***************************************************************************)
Min(S) == CHOOSE x \in S : \A y \in S : x <= y

Range(f) == {f[x] : x \in DOMAIN f}

\* A list without the later occurrences of its elements.
RECURSIVE Distinct(_)
Distinct(list) ==
    IF list = <<>> THEN <<>>
    ELSE LET front == Distinct(SubSeq(list, 1, Len(list) - 1))
             last == list[Len(list)]
         IN  IF last \in Range(front) THEN front ELSE Append(front, last)

RECURSIVE Pow2(_)
Pow2(k) == IF k = 0 THEN 1 ELSE 2 * Pow2(k - 1)

\* Array.prototype.join(sep) on an array of strings.
RECURSIVE JoinWith(_, _)
JoinWith(list, sep) ==
    IF Len(list) = 0 THEN ""
    ELSE IF Len(list) = 1 THEN list[1]
    ELSE list[1] \o sep \o JoinWith(Tail(list), sep)

\* String.prototype.indexOf, 1-based; 0 when t does not occur in s.
IndexOf(s, t) ==
    LET at == {i \in 1..(Len(s) - Len(t) + 1) : SubSeq(s, i, i + Len(t) - 1) = t}
    IN  IF at = {} THEN 0 ELSE Min(at)

\* The characters U+0060 and U+0027. A string literal cannot hold U+0060 on
\* its own, so both are cut out of the two-character string.
GraveApostrophe == "`'"
Grave == SubSeq(GraveApostrophe, 1, 1)
Apostrophe == SubSeq(GraveApostrophe, 2, 2)

\* ECMAScript GetSubstitution for a string search value (no captures):
\* "$$" is "$", "$&" the match, "$" with Grave the text before the match,
\* "$" with Apostrophe the text after it; every other character, "$"
\* followed by a digit included, is literal.
RECURSIVE GetSubstitution(_, _, _, _, _)
GetSubstitution(matched, str, position, replacement, i) ==
    IF i > Len(replacement) THEN ""
    ELSE LET c == SubSeq(replacement, i, i)
             d == IF i < Len(replacement) THEN SubSeq(replacement, i + 1, i + 1) ELSE ""
         IN  IF c = "$" /\ d = "$"
               THEN "$" \o GetSubstitution(matched, str, position, replacement, i + 2)
             ELSE IF c = "$" /\ d = "&"
               THEN matched \o GetSubstitution(matched, str, position, replacement, i + 2)
             ELSE IF c = "$" /\ d = Grave
               THEN SubSeq(str, 1, position - 1)
                    \o GetSubstitution(matched, str, position, replacement, i + 2)
             ELSE IF c = "$" /\ d = Apostrophe
               THEN SubSeq(str, position + Len(matched), Len(str))
                    \o GetSubstitution(matched, str, position, replacement, i + 2)
             ELSE c \o GetSubstitution(matched, str, position, replacement, i + 1)

\* String.prototype.replace(searchValue, replaceValue) with two strings:
\* only the first occurrence is replaced, and replaceValue is a template.
Replace(s, searchValue, replaceValue) ==
    LET p == IndexOf(s, searchValue)
    IN  IF p = 0 THEN s
        ELSE SubSeq(s, 1, p - 1)
             \o GetSubstitution(searchValue, s, p, replaceValue, 1)
             \o SubSeq(s, p + Len(searchValue), Len(s))

(***************************************************************************)
(* generatePatternCombinations                                             *)
(***************************************************************************)
\* const env = process.env.NODE_ENV || 'development'
ActiveEnv(nodeEnv) ==
    IF nodeEnv.isSet /\ nodeEnv.value # "" THEN nodeEnv.value ELSE "development"

\* const processed = part.type === 'node_env' ? part.value.replace('$1', env) : part.value
Processed(part, env) ==
    IF part.type = "node_env" THEN Replace(part.value, "$1", env) ELSE part.value

\* Variant of ForBody: the part is pushed before the copy is taken.
ForBodyPushThenCopy(combs, i, part, processed) ==
    LET pushed == [combs EXCEPT ![i] = Append(@, processed)]
    IN  IF part.optional THEN Append(pushed, pushed[i]) ELSE pushed

\* Variant of ForBody: the copy, not combinations[i], receives an optional part.
ForBodyCopyGetsPart(combs, i, part, processed) ==
    IF part.optional THEN Append(combs, Append(combs[i], processed))
    ELSE [combs EXCEPT ![i] = Append(@, processed)]

\* The body of the for loop at index i (1-based): an optional part first
\* pushes a copy of combinations[i], then the part is pushed onto combinations[i].
ForBody(combs, i, part, processed) ==
    LET kept == IF part.optional THEN Append(combs, combs[i]) ELSE combs
    IN  [kept EXCEPT ![i] = Append(@, processed)]

\* Variant of ForLoop: the existing combinations are visited from the last to the first.
RECURSIVE ForLoopDescending(_, _, _, _, _)
ForLoopDescending(combs, i, currentLength, part, processed) ==
    IF i > currentLength THEN combs
    ELSE ForLoopDescending(ForBody(combs, currentLength - i + 1, part, processed),
                           i + 1, currentLength, part, processed)

\* for (let i = 0; i < currentLength; i++) { ... }
RECURSIVE ForLoop(_, _, _, _, _)
ForLoop(combs, i, currentLength, part, processed) ==
    IF i > currentLength THEN combs
    ELSE ForLoop(ForBody(combs, i, part, processed), i + 1, currentLength, part, processed)

\* One call of the forEach callback.
ForEachPart(combs, part, env) ==
    ForLoop(combs, 1, Len(combs), part, Processed(part, env))

\* Variant of JoinAll: equal strings are returned once.
JoinAllDistinct(combs) == Distinct([n \in 1..Len(combs) |-> JoinWith(combs[n], "")])

\* combinations.map(parts => parts.join(''))
JoinAll(combs) == [n \in 1..Len(combs) |-> JoinWith(combs[n], "")]

\* The forEach as a whole: the parts from position from on.
RECURSIVE ForEachFrom(_, _, _, _)
ForEachFrom(combs, pat, from, env) ==
    IF from > Len(pat) THEN combs
    ELSE ForEachFrom(ForEachPart(combs, pat[from], env), pat, from + 1, env)

\* generatePatternCombinations(pattern), with the ambient NODE_ENV made explicit.
generatePatternCombinations(pat, nodeEnv) ==
    JoinAll(ForEachFrom(<< <<>> >>, pat, 1, ActiveEnv(nodeEnv)))

(***************************************************************************)
(* Inputs.                                                                 *)
(***************************************************************************)
PartValues == {".env", ".$1", ".local"}
PartTypes == {"filename", "node_env"}
EnvPatternPart == [value : PartValues, type : PartTypes, optional : BOOLEAN]

RECURSIVE SeqsUpTo(_, _)
SeqsUpTo(S, n) ==
    IF n = 0 THEN {<<>>}
    ELSE LET shorter == SeqsUpTo(S, n - 1)
         IN  shorter \cup {Append(q, x) : q \in {r \in shorter : Len(r) = n - 1}, x \in S}

Unset == [isSet |-> FALSE, value |-> ""]
EnvSet(v) == [isSet |-> TRUE, value |-> v]
NodeEnvs ==
    {Unset, EnvSet(""), EnvSet("test"), EnvSet("$&"), EnvSet("$$"),
     EnvSet("$" \o Grave), EnvSet("$" \o Apostrophe)}

\* const defaultPattern = [{ value: '.env', type: 'filename' }]
defaultPattern == <<[value |-> ".env", type |-> "filename", optional |-> FALSE]>>

\* The custom pattern of the README.
readmePattern ==
    <<[value |-> ".env", type |-> "filename", optional |-> FALSE],
      [value |-> ".$1", type |-> "node_env", optional |-> TRUE],
      [value |-> ".local", type |-> "filename", optional |-> TRUE]>>

\* The default value of the pattern parameter.
defaultParam ==
    <<[value |-> ".env", type |-> "filename", optional |-> FALSE],
      [value |-> ".$1", type |-> "node_env", optional |-> TRUE]>>

NoConfig == [resolvedBy |-> None, filepath |-> None]
Pending == [kind |-> "pending", value |-> ""]

GenIdle ==
    /\ combinations = << <<>> >>
    /\ partIdx = 0
    /\ genResult = <<>>

ResIdle ==
    /\ dest = "/app"
    /\ ignoreEnvSpecificWarn = FALSE
    /\ fs = {}
    /\ filesToTry = <<>>
    /\ idx = 1
    /\ probed = <<>>
    /\ config = NoConfig
    /\ logs = <<>>
    /\ outcome = Pending

(***************************************************************************)
(* The generator on its own, one forEach callback per step.                *)
(***************************************************************************)
GenInit ==
    /\ pattern \in SeqsUpTo(EnvPatternPart, MaxParts)
    /\ NODE_ENV \in NodeEnvs
    /\ gpc = "loop"
    /\ GenIdle
    /\ pc = "idle"
    /\ ResIdle

GenForEach ==
    /\ gpc = "loop"
    /\ partIdx < Len(pattern)
    /\ combinations' = ForEachPart(combinations, pattern[partIdx + 1], ActiveEnv(NODE_ENV))
    /\ partIdx' = partIdx + 1
    /\ UNCHANGED <<pattern, NODE_ENV, gpc, genResult, resVars>>

GenReturn ==
    /\ gpc = "loop"
    /\ partIdx = Len(pattern)
    /\ genResult' = JoinAll(combinations)
    /\ gpc' = "done"
    /\ UNCHANGED <<pattern, NODE_ENV, combinations, partIdx, resVars>>

GenNext == GenForEach \/ GenReturn

SpecGen == GenInit /\ [][GenNext]_vars

(***************************************************************************)
(* resolveEnvPath                                                          *)
(***************************************************************************)
\* process.cwd(), which path.resolve prepends to a relative path.
Cwd == "/"

\* The segments of s between "/" characters, from character i on.
RECURSIVE SplitSlash(_, _, _)
SplitSlash(s, i, cur) ==
    IF i > Len(s) THEN <<cur>>
    ELSE IF SubSeq(s, i, i) = "/" THEN <<cur>> \o SplitSlash(s, i + 1, "")
    ELSE SplitSlash(s, i + 1, cur \o SubSeq(s, i, i))

\* Path normalisation: empty and "." segments vanish, ".." removes a segment.
RECURSIVE NormalizeSegments(_, _)
NormalizeSegments(segs, acc) ==
    IF segs = <<>> THEN acc
    ELSE LET h == Head(segs)
             next == IF h = "" \/ h = "." THEN acc
                     ELSE IF h = ".." THEN SubSeq(acc, 1, Len(acc) - 1)
                     ELSE Append(acc, h)
         IN  NormalizeSegments(Tail(segs), next)

\* path.resolve(p) of Node.js on a POSIX system.
Resolve(p) ==
    LET abs == IF Len(p) > 0 /\ SubSeq(p, 1, 1) = "/" THEN p ELSE Cwd \o "/" \o p
    IN  "/" \o JoinWith(NormalizeSegments(SplitSlash(abs, 1, ""), <<>>), "/")

\* resolve(`${dest}/${filename}`)
CandidatePath(d, filename) == Resolve(d \o "/" \o filename)

\* fs.existsSync
ExistsSync(path) == path \in fs

\* Variant of FilesToTry: the fallback list comes first.
FilesToTryFallbackFirst(pat, nodeEnv) ==
    generatePatternCombinations(defaultPattern, nodeEnv)
    \o generatePatternCombinations(pat, nodeEnv)

\* const filesToTry = [...generatePatternCombinations(pattern),
\*                     ...generatePatternCombinations(defaultPattern)]
FilesToTry(pat, nodeEnv) ==
    generatePatternCombinations(pat, nodeEnv)
    \o generatePatternCombinations(defaultPattern, nodeEnv)

\* Variant of ErrorMessage: every name is listed once.
ErrorMessageDistinct(files) ==
    "Couldn't load environment file from any sources:\nTried: "
    \o JoinWith(Distinct(files), "\n  - ")

\* The message of the Error thrown when nothing was found.
ErrorMessage(files) ==
    "Couldn't load environment file from any sources:\nTried: "
    \o JoinWith(files, "\n  - ")

\* colors-cli wraps a text in the ANSI escape sequences of a colour; the
\* sequences are written here as tags.
Green(s) == "<green>" \o s \o "</green>"
Cyan(s) == "<cyan>" \o s \o "</cyan>"

\* Variant of Notification: the suppression flag is not consulted.
NotificationIgnoresFlag(resolvedBy, ignoreWarn) ==
    IF resolvedBy = ".env"
    THEN [level |-> "warn", message |-> "Using fallback .env file"]
    ELSE [level |-> "log", message |-> Green("Using " \o Cyan(resolvedBy) \o " file")]

\* The EnvLogger call made for a match: the branches on config.resolvedBy
\* and on ignoreEnvSpecificWarn.
Notification(resolvedBy, ignoreWarn) ==
    IF resolvedBy = ".env"
    THEN IF ~ignoreWarn
         THEN [level |-> "warn", message |-> "Using fallback .env file"]
         ELSE [level |-> "log", message |-> "Using .env file"]
    ELSE [level |-> "log", message |-> Green("Using " \o Cyan(resolvedBy) \o " file")]

\* Variant of NoFilepath: the matched name is tested instead of the path.
NoResolvedBy(cfg) == cfg.resolvedBy = None \/ cfg.resolvedBy = Some("")

\* !config.filepath: null and the empty string are both falsy.
NoFilepath(cfg) == cfg.filepath = None \/ cfg.filepath = Some("")

Dests == {"/app", "app/"}
ResolveNodeEnvs == {Unset, EnvSet("test")}
Files == {"/app/.env", "/app/.env.test", "/app/.env.local"}
\* A file exists only inside an existing directory.
FileSystems == {{}} \cup {{"/app"} \cup S : S \in SUBSET Files}

Init ==
    /\ pattern \in SeqsUpTo(EnvPatternPart, MaxResolveParts)
                    \cup {defaultParam, readmePattern}
    /\ NODE_ENV \in ResolveNodeEnvs
    /\ dest \in Dests
    /\ ignoreEnvSpecificWarn \in BOOLEAN
    /\ fs \in FileSystems
    /\ pc = "start"
    /\ filesToTry = <<>>
    /\ idx = 1
    /\ probed = <<>>
    /\ config = NoConfig
    /\ logs = <<>>
    /\ outcome = Pending
    /\ gpc = "idle"
    /\ GenIdle

\* Lines 81-89: the candidate list and the empty config.
BuildCandidates ==
    /\ pc = "start"
    /\ filesToTry' = FilesToTry(pattern, NODE_ENV)
    /\ idx' = 1
    /\ config' = NoConfig
    /\ pc' = "loop"
    /\ UNCHANGED <<pattern, NODE_ENV, genVars, dest, ignoreEnvSpecificWarn, fs,
                   probed, logs, outcome>>

\* Variant of ProbeCandidate: a hit does not leave the loop.
ProbeCandidateNoBreak ==
    /\ pc = "loop"
    /\ idx <= Len(filesToTry)
    /\ LET filename == filesToTry[idx]
           filepath == CandidatePath(dest, filename)
       IN  /\ probed' = Append(probed, idx)
           /\ config' = IF ExistsSync(filepath)
                        THEN [resolvedBy |-> Some(filename), filepath |-> Some(filepath)]
                        ELSE config
           /\ idx' = idx + 1
           /\ pc' = IF idx = Len(filesToTry) THEN "check" ELSE "loop"
    /\ UNCHANGED <<pattern, NODE_ENV, genVars, dest, ignoreEnvSpecificWarn, fs,
                   filesToTry, logs, outcome>>

\* Lines 91-98: one iteration of the for..of loop; a hit breaks out of it,
\* a miss moves on, and the loop ends after the last candidate.
ProbeCandidate ==
    /\ pc = "loop"
    /\ idx <= Len(filesToTry)
    /\ LET filename == filesToTry[idx]
           filepath == CandidatePath(dest, filename)
       IN  /\ probed' = Append(probed, idx)
           /\ IF ExistsSync(filepath)
              THEN /\ config' = [resolvedBy |-> Some(filename), filepath |-> Some(filepath)]
                   /\ pc' = "check"
                   /\ idx' = idx
              ELSE /\ config' = config
                   /\ idx' = idx + 1
                   /\ pc' = IF idx = Len(filesToTry) THEN "check" ELSE "loop"
    /\ UNCHANGED <<pattern, NODE_ENV, genVars, dest, ignoreEnvSpecificWarn, fs,
                   filesToTry, logs, outcome>>

\* Lines 100-102: nothing was found.
ThrowNotFound ==
    /\ pc = "check"
    /\ NoFilepath(config)
    /\ outcome' = [kind |-> "thrown", value |-> ErrorMessage(filesToTry)]
    /\ pc' = "done"
    /\ UNCHANGED <<pattern, NODE_ENV, genVars, dest, ignoreEnvSpecificWarn, fs,
                   filesToTry, idx, probed, config, logs>>

\* Lines 104-114: the notification and the return.
NotifyAndReturn ==
    /\ pc = "check"
    /\ ~NoFilepath(config)
    /\ logs' = Append(logs, Notification(config.resolvedBy[1], ignoreEnvSpecificWarn))
    /\ outcome' = [kind |-> "returned", value |-> config.filepath[1]]
    /\ pc' = "done"
    /\ UNCHANGED <<pattern, NODE_ENV, genVars, dest, ignoreEnvSpecificWarn, fs,
                   filesToTry, idx, probed, config>>

Next == BuildCandidates \/ ProbeCandidate \/ ThrowNotFound \/ NotifyAndReturn

Spec == Init /\ [][Next]_vars

(***************************************************************************)
(* Vocabulary of the properties.                                           *)
(***************************************************************************)
\* The positions of the optional parts of the pattern.
OptionalIdx == {j \in 1..Len(pattern) : pattern[j].optional}

\* What part j of the pattern contributes under the active environment name.
Contribution(j) == Processed(pattern[j], ActiveEnv(NODE_ENV))

\* The contributions of parts 1..n, in pattern order, leaving out the parts in excluded.
RECURSIVE ConcatExcluding(_, _)
ConcatExcluding(excluded, n) ==
    IF n = 0 THEN ""
    ELSE ConcatExcluding(excluded, n - 1)
         \o (IF n \in excluded THEN "" ELSE Contribution(n))

\* The candidate for the subset of optional parts left out.
Candidate(excluded) == ConcatExcluding(excluded, Len(pattern))

\* How often each string occurs in a list.
Occurrences(list) ==
    [str \in Range(list) |-> Cardinality({n \in DOMAIN list : list[n] = str})]

\* How often each string occurs among the candidates of all subsets.
SubsetOccurrences ==
    [str \in {Candidate(X) : X \in SUBSET OptionalIdx}
        |-> Cardinality({X \in SUBSET OptionalIdx : Candidate(X) = str})]

\* The number of optional parts before position j.
Rank(j) == Cardinality({o \in OptionalIdx : o < j})

RECURSIVE SumPow2Rank(_)
SumPow2Rank(X) ==
    IF X = {} THEN 0
    ELSE LET j == Min(X) IN Pow2(Rank(j)) + SumPow2Rank(X \ {j})

\* The list position (1-based) of the candidate leaving out the optional parts in X.
PositionOf(X) == 1 + SumPow2Rank(X)

\* The lowest position of str in list; 0 when it does not occur.
FirstPosition(list, str) ==
    IF str \in Range(list) THEN Min({n \in DOMAIN list : list[n] = str}) ELSE 0

NoDuplicates(list) == \A m, n \in DOMAIN list : list[m] = list[n] => m = n

\* C4: a pattern with k optional parts expands to exactly 2^k strings, equal
\* strings kept, and the resolver's candidate list has 2^k + 1 entries.
C4_TwoToTheK ==
    gpc = "done" =>
        /\ Len(genResult) = Pow2(Cardinality(OptionalIdx))
        /\ Len(FilesToTry(pattern, NODE_ENV)) = Pow2(Cardinality(OptionalIdx)) + 1

\* C4 witness: a finished expansion of three optional parts holding equal strings.
C4_Witness ==
    /\ gpc = "done"
    /\ Cardinality(OptionalIdx) = 3
    /\ Len(genResult) = 8
    /\ ~NoDuplicates(genResult)

\* C5: the returned list and the subsets of the optional parts correspond one
\* to one: every string occurs in the list exactly as often as there are
\* subsets whose concatenation (mandatory parts and the chosen optional parts,
\* in pattern order) it is.
C5_SubsetsOneToOne ==
    gpc = "done" => Occurrences(genResult) = SubsetOccurrences

\* C5 witness: a finished expansion mixing mandatory and optional parts.
C5_Witness ==
    /\ gpc = "done"
    /\ Cardinality(OptionalIdx) = 2
    /\ Len(pattern) = 3
    /\ NoDuplicates(genResult)

\* C6: after every processed part the prefix at index 0 holds the contributions
\* of all parts processed so far, and the first returned string is the
\* concatenation of every part's contribution.
C6_AllIncludedFirst ==
    /\ gpc \in {"loop", "done"} =>
          JoinWith(combinations[1], "") = ConcatExcluding({}, partIdx)
    /\ gpc = "done" => genResult[1] = Candidate({})

\* C6 witness: a finished expansion whose optional parts make the first
\* string differ from every other one.
C6_Witness ==
    /\ gpc = "done"
    /\ Cardinality(OptionalIdx) >= 2
    /\ \A n \in 2..Len(genResult) : genResult[n] # genResult[1]

\* C7 as claimed: of two optional parts a < b, the combination leaving out only
\* b is listed before the combination leaving out only a.
C7_LaterExcludedFirst ==
    (gpc = "done" /\ NoDuplicates(genResult)) =>
        \A a, b \in OptionalIdx :
            a < b => FirstPosition(genResult, Candidate({b}))
                        < FirstPosition(genResult, Candidate({a}))

\* C7 amended: of two optional parts a < b, the combination leaving out only a
\* is listed before the combination leaving out only b; leaving out the r-th
\* optional part alone (r from 0) puts the string at index 2^r.
C7_EarlierExcludedFirst ==
    gpc = "done" =>
        \A a, b \in OptionalIdx :
            a < b => /\ PositionOf({a}) < PositionOf({b})
                     /\ PositionOf({b}) <= Len(genResult)
                     /\ genResult[PositionOf({a})] = Candidate({a})
                     /\ genResult[PositionOf({b})] = Candidate({b})

\* C7 witness: the pattern of the README under the environment "test":
\* ".env.local" at index 1, ".env.test" at index 2.
C7_Witness ==
    /\ gpc = "done"
    /\ genResult = <<".env.test.local", ".env.local", ".env.test", ".env">>

\* The environment name of C8: the variable, or "development" when it is
\* unset; a variable set to the empty string is read here as unset.
ClaimedEnv ==
    IF NODE_ENV.isSet /\ NODE_ENV.value # "" THEN NODE_ENV.value ELSE "development"

\* The first placeholder of value replaced by name, character for character.
Verbatim(value, name) ==
    LET p == IndexOf(value, "$1")
    IN  IF p = 0 THEN value
        ELSE SubSeq(value, 1, p - 1) \o name \o SubSeq(value, p + 2, Len(value))

ClaimedContribution(part) ==
    IF part.type = "node_env" THEN Verbatim(part.value, ClaimedEnv) ELSE part.value

RECURSIVE ClaimedConcat(_)
ClaimedConcat(n) ==
    IF n = 0 THEN "" ELSE ClaimedConcat(n - 1) \o ClaimedContribution(pattern[n])

\* C8: a filename part contributes its value unchanged, a node_env part its
\* value with "$1" replaced verbatim by the environment name, which is
\* NODE_ENV or "development" when NODE_ENV is unset.
C8_VerbatimContribution ==
    gpc = "done" => genResult[1] = ClaimedConcat(Len(pattern))

(***************************************************************************)
(* Properties of resolveEnvPath.                                           *)
(***************************************************************************)
\* The list of C1 and C2: the expansions of the custom pattern, then ".env".
ClaimedList == generatePatternCombinations(pattern, NODE_ENV) \o <<".env">>

\* The absolute path of the base directory, and of a file name under it (the
\* names of this model hold no "/" and are neither "." nor "..").
BaseDir == Resolve(dest)
PathUnder(base, name) == IF name = "" THEN base ELSE base \o "/" \o name
Exists(name) == PathUnder(BaseDir, name) \in fs

Returned == pc = "done" /\ outcome.kind = "returned"
Thrown == pc = "done" /\ outcome.kind = "thrown"

\* The candidate string of the last existence check.
Matched == filesToTry[probed[Len(probed)]]

\* C1: a successful call returns the absolute path of the lowest-index
\* candidate that exists, so an existing custom-pattern candidate wins over
\* the appended ".env"; the default pattern is tried as ".env.<env>" (".env"
\* followed by the contribution of its node_env part), then ".env".
C1_FirstExistingWins ==
    /\ Returned =>
          LET list == ClaimedList
              base == BaseDir
              custom == Len(list) - 1
              there == {n \in 1..Len(list) : PathUnder(base, list[n]) \in fs}
          IN  \E n \in there :
                  /\ outcome.value = PathUnder(base, list[n])
                  /\ \A m \in there : n <= m
                  /\ (\E m \in there : m <= custom) => n <= custom
    /\ (pc \in {"loop", "check", "done"} /\ pattern = defaultParam) =>
          /\ SubSeq(filesToTry, 1, 2) = <<".env" \o Contribution(2), ".env">>
          /\ \A n \in 1..Len(probed) : probed[n] = n

\* C1 witness: a call that returned the custom candidate ".env.test" at index
\* 2, after two misses, while the file of the appended ".env" exists too.
C1_Witness ==
    /\ Returned
    /\ probed = <<1, 2, 3>>
    /\ Matched = ".env.test"
    /\ outcome.value = "/app/.env.test"
    /\ Exists(".env")

\* The candidates of list from position 1 to n, separated as in the message.
RECURSIVE Enumerated(_, _)
Enumerated(list, n) ==
    IF n = 1 THEN list[1] ELSE Enumerated(list, n - 1) \o "\n  - " \o list[n]

\* C2: the call fails exactly when no candidate exists under the base
\* directory; the message then lists every candidate, equal ones included, in
\* the order tried, and nothing is returned or logged.
C2_FailsIffNoneExists ==
    pc = "done" =>
        LET list == ClaimedList
            base == BaseDir
        IN  /\ Thrown <=> \A n \in 1..Len(list) : PathUnder(base, list[n]) \notin fs
            /\ Thrown =>
                  /\ outcome.value =
                        "Couldn't load environment file from any sources:\nTried: "
                        \o Enumerated(list, Len(list))
                  /\ probed = [n \in 1..Len(list) |-> n]
                  /\ config.filepath = None
                  /\ ~Returned

\* C2 witness: a failed call whose candidate list holds ".env" twice, in a
\* directory that exists.
C2_Witness ==
    /\ Thrown
    /\ Cardinality({n \in 1..Len(filesToTry) : filesToTry[n] = ".env"}) = 2
    /\ fs = {"/app"}

\* C3: a successful call emits exactly one notification: the warning
\* "fallback used" exactly when the matched string is ".env" and the
\* suppression flag is false, an info otherwise, naming the matched file when
\* it is not ".env"; a failing call emits none.
C3_OneNotification ==
    /\ pc # "done" => logs = <<>>
    /\ Thrown => logs = <<>>
    /\ Returned =>
          /\ Len(logs) = 1
          /\ logs[1].level \in {"warn", "log"}
          /\ logs[1].level = "warn" <=> (Matched = ".env" /\ ~ignoreEnvSpecificWarn)
          /\ logs[1].level = "warn" => logs[1].message = "Using fallback .env file"
          /\ (Matched = ".env" /\ ignoreEnvSpecificWarn) => logs[1].message = "Using .env file"
          /\ Matched # ".env" =>
                /\ IndexOf(logs[1].message, "Using ") # 0
                /\ IndexOf(logs[1].message, Matched) # 0
                /\ IndexOf(logs[1].message, "fallback") = 0

\* C3 witness: the warning for a ".env" that came from the custom pattern's
\* expansions, not from the appended entry.
C3_Witness ==
    /\ Returned
    /\ Matched = ".env"
    /\ Len(probed) < Len(filesToTry)
    /\ logs = <<[level |-> "warn", message |-> "Using fallback .env file"]>>

\* C9: the existence checks visit the list positions 1, 2, 3, ... in order,
\* each position at most once, none after a check that succeeded, at most
\* 2^k + 1 of them; while the loop runs its next position is in the list, and
\* the call ends with a returned path or the failure.
C9_OrderedChecksNoRetry ==
    /\ probed = [n \in 1..Len(probed) |-> n]
    /\ Len(probed) <= Pow2(Cardinality(OptionalIdx)) + 1
    /\ Len(probed) >= 2 =>
          LET list == ClaimedList
              base == BaseDir
          IN  \A n \in 1..(Len(probed) - 1) : PathUnder(base, list[probed[n]]) \notin fs
    /\ pc = "loop" => idx = Len(probed) + 1 /\ idx <= Len(filesToTry)
    /\ pc = "done" => Len(probed) >= 1 /\ outcome.kind \in {"returned", "thrown"}
    /\ Returned => Exists(Matched)

\* C9 witness: a call that stopped at a hit after a miss, with an existing
\* candidate left unchecked.
C9_Witness ==
    /\ Returned
    /\ Matched = ".env.local"
    /\ Len(probed) >= 2
    /\ Len(probed) < Len(filesToTry)
    /\ \E n \in (Len(probed) + 1)..Len(filesToTry) : Exists(filesToTry[n])

\* C10: the path of an empty candidate is the base directory; when the base
\* directory exists and no earlier candidate does, the call returns the base
\* directory, emits the info notification and never checks the appended ".env".
C10_EmptyCandidateIsBaseDir ==
    pc = "done" =>
        LET list == ClaimedList
            base == BaseDir
            empty == FirstPosition(SubSeq(list, 1, Len(list) - 1), "")
        IN  (/\ empty # 0
             /\ base \in fs
             /\ \A m \in 1..(empty - 1) : PathUnder(base, list[m]) \notin fs) =>
                /\ CandidatePath(dest, list[empty]) = base
                /\ Returned
                /\ outcome.value = base
                /\ probed = [n \in 1..empty |-> n]
                /\ Len(filesToTry) \notin Range(probed)
                /\ Len(logs) = 1
                /\ logs[1].level = "log"
                /\ IndexOf(logs[1].message, "fallback") = 0
                /\ logs[1].message # "Using .env file"

\* C10 witness: the base directory returned although its ".env" file exists.
C10_Witness ==
    /\ Returned
    /\ Matched = ""
    /\ outcome.value = "/app"
    /\ "/app/.env" \in fs
    /\ Len(probed) >= 2

====
